---- MODULE Spec2Model ----
(***************************************************************************)
(* Model of the Strava power analysis bot: bot_power.py (sample cleaning,  *)
(* sliding-window maximum average, ranking, incremental sync of the        *)
(* activity store) and the command layer of discord_power_bot.py.          *)
(*                                                                         *)
(* Numbers.  Power samples are integers.  An average over a window of w    *)
(* samples is kept exactly, as the fraction num/den with den = w.  A value *)
(* rounded to one decimal place is kept as an integer number of tenths.    *)
(* Python's None is the empty tuple <<>>, a present value x is <<x>>.      *)
(***************************************************************************)
EXTENDS Integers, Sequences, FiniteSets, TLC

\* ------------------------------------------------------------------ bounds

\* Window specification: raw sample sequences have at most MaxSeqLen entries,
\* each None or an integer in 0..MaxSample.
MaxSeqLen == 4
MaxSample == 2
\* Window lengths tried are -1..MaxWindow.
MaxWindow == 5

\* Ranking specification: the store holds at most MaxFiles files; a stored power
\* stream has MinSamples-1..MaxStreamLen samples and one peak of 0..MaxPeak watts;
\* at most MaxTopN results are asked for.
MaxFiles == 2
MaxStreamLen == 11
MaxPeak == 6
MaxTopN == 3

\* Sync specification: the remote service knows at most NumActs activities and
\* !strava update is given at most MaxCmds times.
NumActs == 2
MaxCmds == 2

\* Chunk specification: texts of at most MaxTextLen characters are cut into
\* chunks of at most 1..MaxChunkLen characters.
MaxTextLen == 5
MaxChunkLen == 3

\* Date-mode specifications: the command is given at most MaxArgs arguments,
\* dates are the days 1..MaxDay, the store holds at most MaxSameDay files and
\* the conversation sees at most MaxEvents messages or timeouts.
MaxArgs == 2
MaxDay == 2
MaxSameDay == 2
MaxEvents == 2

\* ------------------------------------------------------- values and helpers

None == <<>>

Some(x) == <<x>>

\* The raw samples a power stream may hold: numbers or null.
RawSamples == {None} \cup {Some(v) : v \in 0..MaxSample}

\* All sequences over S of length 0..n.
SeqsUpTo(S, n) == UNION {[1..k -> S] : k \in 0..n}

\* Results of a computation that may return None or raise.
NoneResult == [kind |-> "None", num |-> 0, den |-> 1]

RaiseResult == [kind |-> "raise", num |-> 0, den |-> 1]

Value(n, d) == [kind |-> "value", num |-> n, den |-> d]

\* The content of a message: a word, or the decimal numeral of n, possibly
\* padded with spaces and possibly in upper case.
Content(body, pad, upper, n) == [body |-> body, pad |-> pad, upper |-> upper, n |-> n]

\* The string literal of a word.
Text(body) == Content(body, FALSE, FALSE, 0)

\* What the waiting command is handed: a message of the same author in the
\* same channel ("message"), another message ("other"), or the expiry of the
\* timeout ("timeout").
Event(kind, content) == [kind |-> kind, content |-> content]

NoEvent == Event("none", Text(""))

\* ------------------------------------------------------------- bot_power.py

\* Faulty variant of clean_power_data: the missing samples are dropped
\* ([p for p in power_list if p is not None]).
clean_power_data_dropping(power_list) ==
    LET present == SelectSeq(power_list, LAMBDA p : p # None)
    IN  [i \in DOMAIN present |-> present[i][1]]

\* clean_power_data: [p if p is not None else 0 for p in power_list]
clean_power_data(power_list) ==
    [i \in DOMAIN power_list |->
        IF power_list[i] # None THEN power_list[i][1] ELSE 0]

\* np.ones(interval_seconds) / interval_seconds: every tap is 1/interval_seconds;
\* the taps are kept as numerators over the common denominator.
OnesWindow(interval_seconds) == [k \in 1..interval_seconds |-> 1]

\* One output sample of np.convolve(arr, window, mode='valid'): with 1-based i,
\* out[i] = sum over k in 1..M of window[k] * arr[i + M - k], M = Len(window).
RECURSIVE ConvolveAt(_, _, _, _)
ConvolveAt(arr, window, i, k) ==
    IF k = 0 THEN 0
    ELSE window[k] * arr[i + Len(window) - k] + ConvolveAt(arr, window, i, k - 1)

\* The number of output samples of mode='valid': max(N, M) - min(N, M) + 1.
ValidLen(n, m) == IF n >= m THEN n - m + 1 ELSE m - n + 1

\* np.convolve(arr, window, mode='valid') for Len(arr) >= Len(window) >= 1.
ConvolveValid(arr, window) ==
    [i \in 1..ValidLen(Len(arr), Len(window)) |->
        ConvolveAt(arr, window, i, Len(window))]

\* Faulty variant of NpMax: the minimum is taken instead of the maximum.
RECURSIVE NpMin(_, _)
NpMin(a, n) ==
    IF n = 1 THEN a[1]
    ELSE LET m == NpMin(a, n - 1) IN IF a[n] < m THEN a[n] ELSE m

\* np.max over a non-empty array, left to right.
RECURSIVE NpMax(_, _)
NpMax(a, n) ==
    IF n = 1 THEN a[1]
    ELSE LET m == NpMax(a, n - 1) IN IF a[n] > m THEN a[n] ELSE m

\* Faulty variant of get_max_average_power: a stream shorter than the window yields 0.
get_max_average_power_zero(power_stream, interval_seconds) ==
    IF Len(power_stream) < interval_seconds THEN Value(0, interval_seconds)
    ELSE IF interval_seconds <= 0 THEN RaiseResult
    ELSE LET averaged == ConvolveValid(power_stream, OnesWindow(interval_seconds))
         IN  Value(NpMax(averaged, Len(averaged)), interval_seconds)

\* Faulty variant of get_max_average_power: no length guard and mode='full',
\* so that a stream shorter than the window is averaged as if padded with
\* zeros (its total over the window length).
get_max_average_power_full(power_stream, interval_seconds) ==
    IF interval_seconds <= 0 \/ power_stream = <<>> THEN RaiseResult
    ELSE IF Len(power_stream) < interval_seconds
    THEN Value(ConvolveValid(power_stream, OnesWindow(Len(power_stream)))[1],
               interval_seconds)
    ELSE LET averaged == ConvolveValid(power_stream, OnesWindow(interval_seconds))
         IN  Value(NpMax(averaged, Len(averaged)), interval_seconds)

\* get_max_average_power.  A non-positive interval raises inside numpy:
\* np.ones of a negative size, or np.convolve with an empty window.
get_max_average_power(power_stream, interval_seconds) ==
    IF Len(power_stream) < interval_seconds THEN NoneResult
    ELSE IF interval_seconds <= 0 THEN RaiseResult
    ELSE LET averaged == ConvolveValid(power_stream, OnesWindow(interval_seconds))
         IN  Value(NpMax(averaged, Len(averaged)), interval_seconds)

\* round(x, 1) of x = num/den >= 0, in tenths: nearest, ties to even.
Round1(num, den) ==
    LET q == (10 * num) \div den
        r == (10 * num) % den
    IN  IF 2 * r < den THEN q
        ELSE IF 2 * r > den THEN q + 1
        ELSE IF q % 2 = 0 THEN q ELSE q + 1

\* A rounded result: None, raise, or a number of tenths.
Rounded(t) == [kind |-> "value", num |-> t, den |-> 10]

\* get_activity_max_power on the activity's "power" field.
get_activity_max_power(power, interval_seconds) ==
    LET val == get_max_average_power(clean_power_data(power), interval_seconds)
    IN  IF val.kind = "None" THEN NoneResult
        ELSE IF val.kind = "raise" THEN RaiseResult
        ELSE Rounded(Round1(val.num, val.den))

\* len(power) >= 10 in load_power_streams.
MinSamples == 10

\* A file of the store directory, <id>.json.  json says whether json.load
\* succeeds; a field the JSON object lacks is None, a present field is Some(_).
File(id, json, name, start_date, power, time) ==
    [id |-> id, json |-> json, name |-> name, start_date |-> start_date,
     power |-> power, time |-> time]

\* The JSON value of a start_date field.  form "iso": an ISO timestamp string
\* with wall-clock reading t and the UTC offset it states (None when the string
\* names no timezone); form "null": the JSON value null.
Date(t, off) == [form |-> "iso", t |-> t, off |-> off]

NullDate == [form |-> "null", t |-> 0, off |-> None]

\* os.listdir(folder) filtered by the .json suffix: the files in the order the
\* directory yields them.  The order is arbitrary but fixed for a directory that
\* does not change; files are numbered in that order.
RECURSIVE ListDir(_)
ListDir(ids) ==
    IF ids = {} THEN <<>>
    ELSE LET m == CHOOSE x \in ids : \A y \in ids : x <= y
         IN  <<m>> \o ListDir(ids \ {m})

\* Python truthiness of a list: non-empty.
Truthy(list) == Len(list) > 0

\* The body of the loop of load_power_streams for one file: "raise" when
\* json.load fails (JSONDecodeError) or 'power' is missing or null
\* (clean_power_data iterates over None: TypeError); otherwise the entry is
\* appended when power and time are non-empty and power has >= 10 samples.
LoadOne(f, data) ==
    IF ~f.json THEN [raised |-> TRUE, data |-> data]
    ELSE IF f.power = None THEN [raised |-> TRUE, data |-> data]
    ELSE LET power == clean_power_data(f.power[1])
             time_data == IF f.time = None THEN <<>> ELSE f.time[1]
             name == IF f.name = None THEN f.id ELSE f.name[1]
         IN  IF Truthy(power) /\ Truthy(time_data) /\ Len(power) >= MinSamples
             THEN [raised |-> FALSE,
                   data |-> Append(data, [power |-> power, time |-> time_data,
                                          date |-> f.start_date, name |-> name])]
             ELSE [raised |-> FALSE, data |-> data]

\* load_power_streams(folder): the loop over the listing; an exception of one
\* file ends the call.
RECURSIVE LoadFrom(_, _, _)
LoadFrom(files, listing, data) ==
    IF listing = <<>> THEN [raised |-> FALSE, data |-> data]
    ELSE LET r == LoadOne(files[Head(listing)], data)
         IN  IF r.raised THEN r ELSE LoadFrom(files, Tail(listing), r.data)

load_power_streams(files) == LoadFrom(files, ListDir(DOMAIN files), <<>>)

\* if max_avg_power: a result is kept when it is neither None nor 0.0.
TruthyResult(val) == val.kind = "value" /\ val.num # 0

\* Faulty variant of SortKey: the sort key is the negated value (ascending order).
SortKeyAscending(r) == 0 - r.max_power

\* key=lambda x: x['max_power']: the rounded value, in tenths.
SortKey(r) == r.max_power

\* Insertion of r into a list sorted by key, descending, after every element
\* whose key is >= its own (a stable sort keeps equal keys in input order).
RECURSIVE InsertDesc(_, _)
InsertDesc(sorted, r) ==
    IF sorted = <<>> THEN <<r>>
    ELSE IF SortKey(Head(sorted)) >= SortKey(r)
         THEN <<Head(sorted)>> \o InsertDesc(Tail(sorted), r)
         ELSE <<r>> \o sorted

\* results.sort(key=..., reverse=True): stable, descending.
RECURSIVE SortDesc(_)
SortDesc(list) ==
    IF list = <<>> THEN <<>>
    ELSE InsertDesc(SortDesc(SubSeq(list, 1, Len(list) - 1)), list[Len(list)])

\* results[:top_n], Python slice semantics.
SliceTo(list, n) ==
    IF n >= 0 THEN SubSeq(list, 1, IF n < Len(list) THEN n ELSE Len(list))
    ELSE SubSeq(list, 1, IF Len(list) + n > 0 THEN Len(list) + n ELSE 0)

\* The loop of analyze_power over the loaded activities; get_max_average_power
\* raising ends the call.
RECURSIVE AnalyzeLoop(_, _, _)
AnalyzeLoop(activities, interval, results) ==
    IF activities = <<>> THEN [raised |-> FALSE, results |-> results]
    ELSE LET act == Head(activities)
             max_avg_power == get_max_average_power(act.power, interval)
         IN  IF max_avg_power.kind = "raise"
             THEN [raised |-> TRUE, results |-> <<>>]
             ELSE IF TruthyResult(max_avg_power)
             THEN AnalyzeLoop(Tail(activities), interval,
                      Append(results,
                          [name |-> act.name, date |-> act.date,
                           max_power |-> Round1(max_avg_power.num, max_avg_power.den)]))
             ELSE AnalyzeLoop(Tail(activities), interval, results)

\* analyze_power(folder, interval_seconds, top_n)
analyze_power(files, interval, n) ==
    LET loaded == load_power_streams(files)
    IN  IF loaded.raised THEN [raised |-> TRUE, results |-> <<>>]
        ELSE LET r == AnalyzeLoop(loaded.data, interval, <<>>)
             IN  IF r.raised THEN r
                 ELSE [raised |-> FALSE, results |-> SliceTo(SortDesc(r.results), n)]

\* ------------------------------------------------------------ chunk_message

Newline == "\n"

\* The characters str.lstrip() removes, among those of the texts.
Whitespace == {" ", Newline}

\* The characters of the texts: a letter, a space and a newline.
Chars == {"a", " ", Newline}

\* text.rfind(ch, start, end): the highest 0-based index i with
\* start <= i < end and text[i] = ch, or -1.
Rfind(text, ch, start, end) ==
    LET stop == IF end < Len(text) THEN end ELSE Len(text)
        found == {i \in start..(stop - 1) : text[i + 1] = ch}
    IN  IF found = {} THEN 0 - 1
        ELSE CHOOSE i \in found : \A j \in found : j <= i

\* text.lstrip(): the text without its leading whitespace.
RECURSIVE Lstrip(_)
Lstrip(text) ==
    IF text # <<>> /\ Head(text) \in Whitespace THEN Lstrip(Tail(text)) ELSE text

\* text[k:] for 0 <= k.
SliceFrom(text, k) == SubSeq(text, k + 1, Len(text))

\* split_at = text.rfind("\n", 0, max_len); if split_at == -1: split_at = max_len
SplitAt(text, limit) ==
    LET at == Rfind(text, Newline, 0, limit)
    IN  IF at = 0 - 1 THEN limit ELSE at

\* --------------------------------------------------- get_activities_for_date

\* dt.date() of dt = datetime.datetime.fromisoformat(act["start_date"]): the
\* day of the wall-clock reading (readings are one per day); the offset plays
\* no part.
DateOf(d) == d.t

\* The body of the loop of get_activities_for_date for one file.  A file that
\* json.load cannot read, that has no start_date, or whose start_date is not
\* an ISO string raises inside the try and is passed over.
ActivityOn(f, target, found) ==
    IF ~f.json \/ f.start_date = None THEN found
    ELSE IF f.start_date[1].form # "iso" THEN found
    ELSE IF DateOf(f.start_date[1]) # target THEN found
    ELSE Append(found,
             [filename |-> f.id,
              name |-> IF f.name = None THEN f.id ELSE f.name[1],
              power |-> IF f.power = None THEN <<>> ELSE f.power[1]])

RECURSIVE ActivitiesFrom(_, _, _, _)
ActivitiesFrom(files, listing, target, found) ==
    IF listing = <<>> THEN found
    ELSE ActivitiesFrom(files, Tail(listing), target,
                        ActivityOn(files[Head(listing)], target, found))

get_activities_for_date(files, target) ==
    ActivitiesFrom(files, ListDir(DOMAIN files), target, <<>>)

\* ------------------------------------------------------ power_cmd, date mode

\* A Python value handed to datetime.date.fromisoformat: a str or a tuple.
PyStr(str) == [type |-> "str", str |-> str, items |-> <<>>]

PyTuple(items) == [type |-> "tuple", str |-> [wf |-> FALSE, day |-> 0], items |-> items]

\* datetime.date.fromisoformat(v): TypeError for an argument that is not a
\* str, ValueError for a str that is not a YYYY-MM-DD date, else the date.
FromIsoFormat(v) ==
    IF v.type # "str" THEN [kind |-> "TypeError", day |-> 0]
    ELSE IF ~v.str.wf THEN [kind |-> "ValueError", day |-> 0]
    ELSE [kind |-> "date", day |-> v.str.day]

\* A message the command sends: its kind and the number it shows.
Msg(kind, val) == [kind |-> kind, val |-> val]

\* The locals and the position of the command at a wait or at its end.
CmdState(at, acts, sel, sent, exc) ==
    [conv |-> at, day_activities |-> acts, selected |-> sel, outbox |-> sent,
     failure |-> exc]

\* Steps 1 to 3 of the date mode, up to the first wait: the activities of the
\* date are collected; none ends the command, one is selected at once,
\* several are listed for the user to choose.
AfterLookup(files, target) ==
    LET acts == get_activities_for_date(files, target)
    IN  IF acts = <<>>
        THEN CmdState("done", acts, None, <<Msg("no_activities", 0)>>, "none")
        ELSE IF Len(acts) = 1
        THEN CmdState("awaiting_duration", acts, Some(acts[1]),
                      <<Msg("selected", acts[1].name)>>, "none")
        ELSE CmdState("awaiting_selection", acts, None,
                      <<Msg("list", Len(acts))>>, "none")

\* The date mode of power_cmd from its invocation to its first wait or its
\* end.  date_str = args binds the tuple of the arguments, and it is the tuple
\* that fromisoformat is given; except ValueError does not catch its TypeError.
power_cmd_date(arguments, files) ==
    IF Len(arguments) # 1
    THEN CmdState("done", <<>>, None, <<Msg("usage", 0)>>, "none")
    ELSE LET date_str == PyTuple(arguments)
             parsed == FromIsoFormat(date_str)
         IN  IF parsed.kind = "ValueError"
             THEN CmdState("done", <<>>, None, <<Msg("invalid_date", 0)>>, "none")
             ELSE IF parsed.kind = "TypeError"
             THEN CmdState("done", <<>>, None, <<>>, "TypeError")
             ELSE AfterLookup(files, parsed.day)

\* str.lower() and str.strip() of a message content.
Lower(c) == [c EXCEPT !.upper = FALSE]

Strip(c) == [c EXCEPT !.pad = FALSE]

\* int(s): the number of a numeral, surrounding spaces allowed; None stands
\* for the ValueError of any other string.
PyInt(c) == IF c.body = "int" THEN Some(c.n) ELSE None

\* Faulty variant of ValidChoice: the lower end is not tested.
ValidChoiceBelowLen(choice, n) == choice < n

\* not (choice < 0 or choice >= len(activities))
ValidChoice(choice, n) == ~(choice < 0 \/ choice >= n)

\* list[i] with Python's indexing: a negative index counts from the end.
PyIndex(list, i) == IF i >= 0 THEN list[i + 1] ELSE list[Len(list) + i + 1]

\* Step 4: the reply to the list of the activities of the date.
OnSelectionReply(c, acts, sent) ==
    IF Lower(c) = Text("cancel")
    THEN CmdState("done", acts, None, Append(sent, Msg("cancelled", 0)), "none")
    ELSE LET number == PyInt(c)
         IN  IF number = None \/ ~ValidChoice(number[1] - 1, Len(acts))
             THEN CmdState("done", acts, None,
                           Append(sent, Msg("invalid_selection", 0)), "none")
             ELSE LET sel == PyIndex(acts, number[1] - 1)
                  IN  CmdState("awaiting_duration", acts, Some(sel),
                               Append(sent, Msg("selected", sel.name)), "none")

\* The body of the analysis loop for one message.
OnDurationReply(c, acts, sel, sent) ==
    LET content == Lower(Strip(c))
    IN  IF content = Text("!done")
        THEN CmdState("done", acts, sel, Append(sent, Msg("finished", 0)), "none")
        ELSE IF PyInt(content) = None
        THEN CmdState("awaiting_duration", acts, sel,
                      Append(sent, Msg("enter_number", 0)), "none")
        ELSE LET w == PyInt(content)[1]
                 val == get_max_average_power(clean_power_data(sel[1].power), w)
             IN  IF val.kind = "raise"
                 THEN CmdState("done", acts, sel, sent, "ValueError")
                 ELSE IF val.kind = "None"
                 THEN CmdState("awaiting_duration", acts, sel,
                               Append(sent, Msg("too_short", w)), "none")
                 ELSE CmdState("awaiting_duration", acts, sel,
                               Append(sent, Msg("max_average", Round1(val.num, val.den))),
                               "none")

\* ------------------------------------------ download_and_save_power_streams

\* datetime.datetime.min, as a reading of the clock.
MinTime == 0

\* max_activities=1000, the limit of the listing.
max_activities == 1000

\* A timezone-aware datetime: the wall-clock reading t at UTC offset off.
Aware(t, off) == [t |-> t, off |-> off]

\* datetime.datetime.min.replace(tzinfo=datetime.timezone.utc)
MinDate == Aware(MinTime, 0)

\* Faulty variant of ParseStartDate: the stated offset is dropped and the reading taken
\* as UTC.
ParseStartDateAsUtc(d) == Aware(d.t, 0)

\* parser.isoparse(...) and, for a string without timezone,
\* start_date.replace(tzinfo=datetime.timezone.utc).
ParseStartDate(d) == Aware(d.t, IF d.off = None THEN 0 ELSE d.off[1])

\* The instant of an aware datetime, on the UTC clock.
Instant(a) == a.t - a.off

\* start_date > latest_date on aware datetimes compares instants.
Later(a, b) == Instant(a) > Instant(b)

\* Faulty variant of ScanOne: no file of the directory is taken into account (as with a
\* wrong suffix filter).
ScanOneSkipsAll(f, acc) == acc

\* The body of the scan loop for one file.  json.load failing
\* (JSONDecodeError) skips the file before its id is recorded; a missing
\* start_date makes isoparse('') raise ValueError, which skips the file after
\* its id is recorded; a null start_date makes isoparse raise TypeError, which
\* the except clause does not catch.
ScanOne(f, acc) ==
    IF ~f.json THEN acc
    ELSE LET ids == acc.ids \cup {f.id}
         IN  IF f.start_date = None THEN [acc EXCEPT !.ids = ids]
             ELSE IF f.start_date[1].form = "null"
             THEN [acc EXCEPT !.ids = ids, !.raised = TRUE]
             ELSE LET start_date == ParseStartDate(f.start_date[1])
                  IN  IF Later(start_date, acc.latest)
                      THEN [acc EXCEPT !.ids = ids, !.latest = start_date]
                      ELSE [acc EXCEPT !.ids = ids]

\* Step 1 of download_and_save_power_streams: the scan of the directory for
\* latest_date and downloaded_ids; an uncaught exception ends it.
RECURSIVE ScanFrom(_, _, _)
ScanFrom(files, listing, acc) ==
    IF listing = <<>> \/ acc.raised THEN acc
    ELSE ScanFrom(files, Tail(listing), ScanOne(files[Head(listing)], acc))

Scan(files) ==
    ScanFrom(files, ListDir(DOMAIN files),
             [raised |-> FALSE, latest |-> MinDate, ids |-> {}])

\* The activities the remote service knows: ids 1..NumActs, activity id started
\* at time id (activity.start_date is an aware UTC datetime).
ActIds == 1..NumActs

StartOf(id) == Aware(id, 0)

\* What the remote service holds of an activity's streams.
StreamKinds == {"full", "nowatts", "notime", "emptywatts", "emptytime"}

\* client.get_activity_streams(id): the streams by name, None for a stream the
\* activity does not have, Some(data) otherwise.
Streams(id, kind) ==
    [watts |-> IF kind = "nowatts" THEN None
               ELSE IF kind = "emptywatts" THEN Some(<<>>)
               ELSE Some(<<Some(id), None>>),
     time  |-> IF kind = "notime" THEN None
               ELSE IF kind = "emptytime" THEN Some(<<>>)
               ELSE Some(<<0, 1>>)]

\* 'watts' not in available or 'time' not in available
LacksStream(streams) == streams.watts = None \/ streams.time = None

\* Faulty variant of HasData: only the presence of the two streams is tested,
\* not their data (if power and time:).
HasStreams(streams) == streams.watts # None /\ streams.time # None

\* power and time and power.data and time.data
HasData(streams) ==
    /\ streams.watts # None /\ streams.time # None
    /\ Truthy(streams.watts[1]) /\ Truthy(streams.time[1])

\* The record json.dump writes for an activity; str(activity.start_date) states
\* the UTC offset.
SavedFile(id, streams) ==
    File(id, TRUE, Some(id), Some(Date(StartOf(id).t, Some(StartOf(id).off))),
         streams.watts, streams.time)

\* Faulty variant of WriteFile: the directory holds the new file only (as if
\* it were emptied before the write).
WriteFileAlone(files, id, f) == (id :> f)

\* with open(filename, 'w') as f: json.dump(activity_data, f): the file of the
\* activity is created, or replaced, and the other files are left alone.
WriteFile(files, id, f) == (id :> f) @@ files

\* Faulty variant of AlreadyDownloaded: no listed activity is taken as downloaded.
NeverDownloaded(id, ids) == FALSE

\* activity.id in downloaded_ids
AlreadyDownloaded(id, ids) == id \in ids

\* All orderings of a finite set, as sequences.
RECURSIVE Perms(_)
Perms(S) ==
    IF S = {} THEN {<<>>}
    ELSE UNION {{<<x>> \o p : p \in Perms(S \ {x})} : x \in S}

\* client.get_activities(after=latest_date, limit=max_activities): the remote
\* activities that started after the watermark, in an order the service
\* chooses, cut to the limit.
Listings(rem, after) ==
    {SubSeq(p, 1, IF Len(p) < max_activities THEN Len(p) ELSE max_activities) :
        p \in Perms({id \in ActIds : rem[id] # "absent" /\ Later(StartOf(id), after)})}

\* Faulty variant of AfterRateLimit: the loop goes on after the rate limit.
AfterRateLimitGoOn == "loop"

\* except RateLimitExceeded: ... return
AfterRateLimit == "idle"

\* The reply of strava_cmd after download_and_save_power_streams returned, by
\* whichever path.
ReplyAfterReturn == "updated"

\* The reply of strava_cmd after an exception reached it.
ReplyAfterException == "error"

\* ---------------------------------------------------------------- state

VARIABLES
    \* window specification: one call of the analysis functions
    power_list,        \* the raw "power" sequence of the call
    interval_seconds,  \* the window length of the call
    called,            \* "none", or the function that has been called
    cleaned,           \* what clean_power_data returned
    max_avg,           \* what get_max_average_power returned on the cleaned data
    act_max,           \* what get_activity_max_power returned
    \* the activity store: file id -> File
    store,
    \* ranking specification: one !power top query
    seconds,           \* the window length of the query
    top_n,             \* the number of results asked for
    rank_done,         \* analyze_power has been called
    rank_out,          \* what analyze_power did: [raised, results]
    \* sync specification: the remote service and the !strava update command
    remote,            \* activity id -> "absent" or the kind of its streams
    pc,                \* "idle", or the place of the running pass
    latest_date,       \* local of the pass: the watermark
    downloaded_ids,    \* local of the pass: the ids found by the scan
    activities,        \* local of the pass: the listed activities not yet iterated
    requests,          \* stream requests made in the current or last pass
    written,           \* ids written in the current or last pass
    ended,             \* how the last command ended, "running" during a pass
    reply,             \* the last reply of strava_cmd to the user
    cmds,              \* commands given so far
    runs,              \* runs of download_and_save_power_streams so far
    prev_ended,        \* how the command before the current run ended
    ids_before,        \* the ids in the store when the current run started
    fresh,             \* an activity was added remotely since the last run started
    new_before,        \* an activity was added between the start of the run
                       \* before and the start of the current run
    watermarks,        \* the latest_date each run so far computed from the store
    \* chunk specification: one call of chunk_message
    msg_text,          \* the text the call was given
    max_len,           \* the chunk length the call was given
    text,              \* the local text: what is left to cut
    chunks,            \* the local chunks
    chunk_pc,          \* "while": at the loop test; "return": the call returned
    \* date-mode specifications: one !power date command
    args,              \* the arguments after the mode
    target_date,       \* the parsed date
    conv,              \* "invoked", "collect" (at Step 1), "awaiting_selection",
                       \* "awaiting_duration", "done"
    day_activities,    \* the local activities
    selected,          \* the local selected, None before the selection
    outbox,            \* the messages the command has sent
    last_event,        \* the last message or timeout the command was handed
    events,            \* how many there were
    failure            \* "none", or the exception that left the command

windowVars == <<power_list, interval_seconds, called, cleaned, max_avg, act_max>>

rankVars == <<seconds, top_n, rank_done, rank_out>>

passVars == <<pc, latest_date, downloaded_ids, activities, requests, written,
              ended, reply, cmds, runs, prev_ended, ids_before, fresh, new_before, watermarks>>

syncVars == <<remote, passVars>>

chunkVars == <<msg_text, max_len, text, chunks, chunk_pc>>

convVars == <<args, target_date, conv, day_activities, selected, outbox,
              last_event, events, failure>>

botVars == <<chunkVars, convVars>>

vars == <<windowVars, store, rankVars, syncVars, botVars>>

\* The values the variables of a part hold while another part is checked.
WindowIdle ==
    /\ power_list = <<>>
    /\ interval_seconds = 1
    /\ called = "none"
    /\ cleaned = <<>>
    /\ max_avg = NoneResult
    /\ act_max = NoneResult

RankIdle ==
    /\ seconds = 1
    /\ top_n = 0
    /\ rank_done = FALSE
    /\ rank_out = [raised |-> FALSE, results |-> <<>>]

SyncIdle ==
    /\ remote = [id \in ActIds |-> "absent"]
    /\ pc = "idle"
    /\ latest_date = MinDate
    /\ downloaded_ids = {}
    /\ activities = <<>>
    /\ requests = 0
    /\ written = {}
    /\ ended = "none"
    /\ reply = "none"
    /\ cmds = 0
    /\ runs = 0
    /\ prev_ended = "none"
    /\ ids_before = {}
    /\ fresh = FALSE
    /\ new_before = FALSE
    /\ watermarks = <<>>

ChunkIdle ==
    /\ msg_text = <<>>
    /\ max_len = 1
    /\ text = <<>>
    /\ chunks = <<>>
    /\ chunk_pc = "return"

ConvIdle ==
    /\ args = <<>>
    /\ target_date = 0
    /\ conv = "done"
    /\ day_activities = <<>>
    /\ selected = None
    /\ outbox = <<>>
    /\ last_event = NoEvent
    /\ events = 0
    /\ failure = "none"

BotIdle == ChunkIdle /\ ConvIdle

\* ------------------------------------------------- window specification

WindowLengths == (0 - 1)..MaxWindow

WindowInit ==
    /\ power_list \in SeqsUpTo(RawSamples, MaxSeqLen)
    /\ interval_seconds \in WindowLengths
    /\ called = "none"
    /\ cleaned = <<>>
    /\ max_avg = NoneResult
    /\ act_max = NoneResult
    /\ store = <<>>
    /\ RankIdle
    /\ SyncIdle
    /\ BotIdle

\* power = clean_power_data(selected["power"]); val = get_max_average_power(power, seconds)
CallMaxAverage ==
    /\ called = "none"
    /\ called' = "get_max_average_power"
    /\ cleaned' = clean_power_data(power_list)
    /\ max_avg' = get_max_average_power(clean_power_data(power_list), interval_seconds)
    /\ UNCHANGED <<botVars, power_list, interval_seconds, act_max, store, rankVars, syncVars>>

\* get_activity_max_power(activity, interval_seconds)
CallActivityMax ==
    /\ called = "none"
    /\ called' = "get_activity_max_power"
    /\ act_max' = get_activity_max_power(power_list, interval_seconds)
    /\ UNCHANGED <<botVars, power_list, interval_seconds, cleaned, max_avg, store, rankVars, syncVars>>

WindowNext == CallMaxAverage \/ CallActivityMax

SpecWindow == WindowInit /\ [][WindowNext]_vars

\* ------------------------------------------------ ranking specification

\* A stored power stream of n samples: a peak of v watts, then dropouts (null)
\* alternating with zero readings.
Spike(n, v) ==
    [i \in 1..n |-> IF i = 1 THEN Some(v) ELSE IF i % 2 = 0 THEN None ELSE Some(0)]

\* The elapsed-second markers parallel to a power stream of n samples.
TimeMarks(n) == [i \in 1..n |-> i - 1]

\* What a file of the directory may hold.
FileShapes ==
    {[kind |-> "ok", len |-> n, peak |-> v] :
        n \in (MinSamples - 1)..MaxStreamLen, v \in 0..MaxPeak}
    \cup {[kind |-> k, len |-> MinSamples, peak |-> 1] :
        k \in {"badjson", "nopower", "notime"}}

ShapedFile(id, sh) ==
    IF sh.kind = "badjson" THEN File(id, FALSE, None, None, None, None)
    ELSE File(id, TRUE, Some(id), Some(Date(id, Some(0))),
              IF sh.kind = "nopower" THEN None ELSE Some(Spike(sh.len, sh.peak)),
              IF sh.kind = "notime" THEN None ELSE Some(TimeMarks(sh.len)))

RankWindows == (0 - 1)..(MaxStreamLen + 1)

RankInit ==
    /\ WindowIdle
    /\ RankIdle
    /\ SyncIdle
    /\ BotIdle
    /\ \E k \in 0..MaxFiles : \E shapes \in [1..k -> FileShapes] :
          store = [id \in 1..k |-> ShapedFile(id, shapes[id])]

\* !power top <seconds> [N]: analyze_power(DATA_DIR, seconds, top_n)
CallAnalyzePower(w, n) ==
    /\ ~rank_done
    /\ rank_done' = TRUE
    /\ seconds' = w
    /\ top_n' = n
    /\ rank_out' = analyze_power(store, w, n)
    /\ UNCHANGED <<botVars, windowVars, store, syncVars>>

RankNext == \E w \in RankWindows : \E n \in 0..MaxTopN : CallAnalyzePower(w, n)

SpecRank == RankInit /\ [][RankNext]_vars

\* --------------------------------------------------- sync specification

\* The stores a first command may find: empty; a file of activity 1 that is not
\* JSON, or lacks start_date, or has a null start_date; a record 0 copied in by
\* hand whose start_date names no timezone, or names an offset.
InitialStores ==
    {<<>>,
     (1 :> File(1, FALSE, None, None, None, None)),
     (1 :> File(1, TRUE, Some(1), None, Some(<<Some(1), None>>), Some(<<0, 1>>))),
     (1 :> File(1, TRUE, Some(1), Some(NullDate), Some(<<Some(1), None>>), Some(<<0, 1>>))),
     (0 :> File(0, TRUE, Some(0), Some(Date(2, None)), Some(<<Some(1), None>>), Some(<<0, 1>>))),
     (0 :> File(0, TRUE, Some(0), Some(Date(3, Some(2))), Some(<<Some(1), None>>), Some(<<0, 1>>)))}

SyncInit ==
    /\ WindowIdle
    /\ RankIdle
    /\ SyncIdle
    /\ BotIdle
    /\ store \in InitialStores

\* A new activity appears at the remote service (between commands).
RemoteAdd(id, kind) ==
    /\ pc = "idle"
    /\ remote[id] = "absent"
    /\ remote' = [remote EXCEPT ![id] = kind]
    /\ fresh' = TRUE
    /\ UNCHANGED <<botVars, windowVars, store, rankVars, pc, latest_date, downloaded_ids,
                   activities, requests, written, ended, reply, cmds, runs,
                   prev_ended, ids_before, new_before, watermarks>>

\* !strava update when authenticate() raises (tokens.json missing, refresh
\* refused): the except clause of strava_cmd replies with the error.
AuthFail ==
    /\ pc = "idle"
    /\ cmds < MaxCmds
    /\ cmds' = cmds + 1
    /\ ended' = "authfail"
    /\ reply' = ReplyAfterException
    /\ UNCHANGED <<botVars, windowVars, store, rankVars, remote, pc, latest_date,
                   downloaded_ids, activities, requests, written, runs,
                   prev_ended, ids_before, fresh, new_before, watermarks>>

\* !strava update: authenticate() succeeds and download_and_save_power_streams
\* starts with the scan of the store.  A scan that raises ends the command.
StartSync ==
    /\ pc = "idle"
    /\ cmds < MaxCmds
    /\ cmds' = cmds + 1
    /\ runs' = runs + 1
    /\ prev_ended' = ended
    /\ ids_before' = DOMAIN store
    /\ new_before' = fresh
    /\ fresh' = FALSE
    /\ requests' = 0
    /\ written' = {}
    /\ activities' = <<>>
    /\ LET scan == Scan(store)
       IN  IF scan.raised
           THEN /\ pc' = "idle"
                /\ ended' = "scanfail"
                /\ reply' = ReplyAfterException
                /\ UNCHANGED <<latest_date, downloaded_ids, watermarks>>
           ELSE /\ pc' = "listing"
                /\ ended' = "running"
                /\ latest_date' = scan.latest
                /\ watermarks' = Append(watermarks, scan.latest)
                /\ downloaded_ids' = scan.ids
                /\ UNCHANGED reply
    /\ UNCHANGED <<botVars, windowVars, store, rankVars, remote>>

\* activities = client.get_activities(after=latest_date, limit=max_activities)
ListActivities ==
    /\ pc = "listing"
    /\ activities' \in Listings(remote, latest_date)
    /\ pc' = "loop"
    /\ UNCHANGED <<botVars, windowVars, store, rankVars, remote, latest_date, downloaded_ids,
                   requests, written, ended, reply, cmds, runs, prev_ended,
                   ids_before, fresh, new_before, watermarks>>

\* if activity.id in downloaded_ids: continue
SkipDownloaded ==
    /\ pc = "loop"
    /\ activities # <<>>
    /\ AlreadyDownloaded(Head(activities), downloaded_ids)
    /\ activities' = Tail(activities)
    /\ UNCHANGED <<botVars, windowVars, store, rankVars, remote, pc, latest_date,
                   downloaded_ids, requests, written, ended, reply, cmds, runs,
                   prev_ended, ids_before, fresh, new_before, watermarks>>

\* all_streams = client.get_activity_streams(activity.id); an activity without
\* a watts or a time stream is skipped.
FetchAvailable ==
    /\ pc = "loop"
    /\ activities # <<>>
    /\ ~AlreadyDownloaded(Head(activities), downloaded_ids)
    /\ requests' = requests + 1
    /\ IF LacksStream(Streams(Head(activities), remote[Head(activities)]))
       THEN activities' = Tail(activities) /\ pc' = "loop"
       ELSE activities' = activities /\ pc' = "fetch"
    /\ UNCHANGED <<botVars, windowVars, store, rankVars, remote, latest_date, downloaded_ids,
                   written, ended, reply, cmds, runs, prev_ended, ids_before,
                   fresh, new_before, watermarks>>

\* streams = client.get_activity_streams(activity.id, types=['watts', 'time']);
\* the record is written when both streams have data.
FetchData ==
    /\ pc = "fetch"
    /\ requests' = requests + 1
    /\ LET id == Head(activities)
           streams == Streams(id, remote[id])
       IN  IF HasData(streams)
           THEN /\ store' = WriteFile(store, id, SavedFile(id, streams))
                /\ written' = written \cup {id}
           ELSE UNCHANGED <<store, written>>
    /\ activities' = Tail(activities)
    /\ pc' = "loop"
    /\ UNCHANGED <<botVars, windowVars, rankVars, remote, latest_date, downloaded_ids,
                   ended, reply, cmds, runs, prev_ended, ids_before, fresh,
                   new_before, watermarks>>

\* The end of a run: the locals are gone and strava_cmd replies.
EndRun(how, where) ==
    /\ pc' = where
    /\ ended' = how
    /\ reply' = ReplyAfterReturn
    /\ IF where = "idle"
       THEN latest_date' = MinDate /\ downloaded_ids' = {} /\ activities' = <<>>
       ELSE UNCHANGED <<latest_date, downloaded_ids, activities>>
    /\ UNCHANGED <<botVars, windowVars, store, rankVars, remote, requests, written, cmds,
                   runs, prev_ended, ids_before, fresh, new_before, watermarks>>

\* The listing is exhausted: the function returns.
Finish ==
    /\ pc = "loop"
    /\ activities = <<>>
    /\ EndRun("completed", "idle")

\* A remote call (the listing, a page of it while the loop iterates, a stream
\* request) raises RateLimitExceeded: except RateLimitExceeded: print; return.
RateLimit ==
    /\ pc \in {"listing", "loop", "fetch"}
    /\ ended = "running"
    /\ EndRun("ratelimited", AfterRateLimit)

\* A remote call raises another exception: except Exception: print.
RemoteError ==
    /\ pc \in {"listing", "loop", "fetch"}
    /\ EndRun("error", "idle")

SyncNext ==
    \/ \E id \in ActIds : \E kind \in StreamKinds : RemoteAdd(id, kind)
    \/ AuthFail
    \/ StartSync
    \/ ListActivities
    \/ SkipDownloaded
    \/ FetchAvailable
    \/ FetchData
    \/ Finish
    \/ RateLimit
    \/ RemoteError

SpecSync == SyncInit /\ [][SyncNext]_vars

\* -------------------------------------------------- chunk specification

ChunkInit ==
    /\ WindowIdle
    /\ RankIdle
    /\ SyncIdle
    /\ ConvIdle
    /\ store = <<>>
    /\ msg_text \in SeqsUpTo(Chars, MaxTextLen)
    /\ max_len \in 1..MaxChunkLen
    /\ text = msg_text
    /\ chunks = <<>>
    /\ chunk_pc = "while"

\* if len(text) <= max_len: chunks.append(text); break
ChunkWhole ==
    /\ chunk_pc = "while"
    /\ text # <<>>
    /\ Len(text) <= max_len
    /\ chunks' = Append(chunks, text)
    /\ chunk_pc' = "return"
    /\ UNCHANGED <<msg_text, max_len, text>>
    /\ UNCHANGED <<windowVars, store, rankVars, syncVars, convVars>>

\* The text is longer than max_len: it is cut at the last newline among its
\* first max_len characters, or at max_len; the rest loses its leading
\* whitespace.
ChunkSplit ==
    /\ chunk_pc = "while"
    /\ Len(text) > max_len
    /\ LET split_at == SplitAt(text, max_len)
       IN  /\ chunks' = Append(chunks, SliceTo(text, split_at))
           /\ text' = Lstrip(SliceFrom(text, split_at))
    /\ UNCHANGED <<msg_text, max_len, chunk_pc>>
    /\ UNCHANGED <<windowVars, store, rankVars, syncVars, convVars>>

\* while text: fails on the empty text; return chunks
ChunkReturn ==
    /\ chunk_pc = "while"
    /\ text = <<>>
    /\ chunk_pc' = "return"
    /\ UNCHANGED <<msg_text, max_len, text, chunks>>
    /\ UNCHANGED <<windowVars, store, rankVars, syncVars, convVars>>

ChunkNext == ChunkWhole \/ ChunkSplit \/ ChunkReturn

SpecChunk == ChunkInit /\ [][ChunkNext]_vars

\* --------------------------------------------- date-mode specifications

\* The date strings a user may type: YYYY-MM-DD dates of the days 1..MaxDay and
\* strings that are no date.
DateStrings == {[wf |-> b, day |-> d] : b \in BOOLEAN, d \in 1..MaxDay}

\* What a file of the directory may hold: an activity of a day, with a power
\* stream of one or of two samples, or something json.load cannot read.
DayShapes ==
    {[kind |-> k, day |-> d] : k \in {"short", "long"}, d \in 1..MaxDay}
    \cup {[kind |-> "badjson", day |-> 1]}

DayFile(id, sh) ==
    IF sh.kind = "badjson" THEN File(id, FALSE, None, None, None, None)
    ELSE File(id, TRUE, Some(id), Some(Date(sh.day, Some(0))),
              Some(IF sh.kind = "long" THEN <<Some(2), None>> ELSE <<Some(1)>>),
              Some(IF sh.kind = "long" THEN <<0, 1>> ELSE <<0>>))

DayStores ==
    UNION {{[id \in 1..k |-> DayFile(id, shapes[id])] : shapes \in [1..k -> DayShapes]} :
              k \in 0..MaxSameDay}

\* The contents of the messages a user may send: cancel, !done and another
\* word, in lower or upper case, bare or padded with spaces, and the numerals
\* of -1..MaxSameDay+1, bare or padded.
Contents ==
    {Content(b, p, u, 0) : b \in {"cancel", "!done"}, p \in BOOLEAN, u \in BOOLEAN}
    \cup {Text("abc")}
    \cup {Content("int", p, FALSE, n) : p \in BOOLEAN, n \in (0 - 1)..(MaxSameDay + 1)}

\* !power date with any arguments, on any store: the command up to its first
\* wait.
DateInit ==
    /\ WindowIdle
    /\ RankIdle
    /\ SyncIdle
    /\ ChunkIdle
    /\ store \in DayStores
    /\ args \in SeqsUpTo(DateStrings, MaxArgs)
    /\ target_date = 0
    /\ conv = "invoked"
    /\ day_activities = <<>>
    /\ selected = None
    /\ outbox = <<>>
    /\ last_event = NoEvent
    /\ events = 0
    /\ failure = "none"

DateCmd ==
    /\ conv = "invoked"
    /\ LET r == power_cmd_date(args, store)
       IN  /\ conv' = r.conv
           /\ day_activities' = r.day_activities
           /\ selected' = r.selected
           /\ outbox' = r.outbox
           /\ failure' = r.failure
    /\ UNCHANGED <<args, target_date, last_event, events>>
    /\ UNCHANGED <<windowVars, store, rankVars, syncVars, chunkVars>>

DateNext == DateCmd

SpecDate == DateInit /\ [][DateNext]_vars

\* The conversation of the date mode from Step 1 on, for a target date that
\* has been parsed from the one argument.
ConvInit ==
    /\ WindowIdle
    /\ RankIdle
    /\ SyncIdle
    /\ ChunkIdle
    /\ store \in DayStores
    /\ target_date \in 1..MaxDay
    /\ args = <<[wf |-> TRUE, day |-> target_date]>>
    /\ conv = "collect"
    /\ day_activities = <<>>
    /\ selected = None
    /\ outbox = <<>>
    /\ last_event = NoEvent
    /\ events = 0
    /\ failure = "none"

\* The command's position and locals become those of r.
Become(r) ==
    /\ conv' = r.conv
    /\ day_activities' = r.day_activities
    /\ selected' = r.selected
    /\ outbox' = r.outbox
    /\ failure' = r.failure

\* activities = get_activities_for_date(DATA_DIR, target_date) and what follows
\* up to the first wait.
Collect ==
    /\ conv = "collect"
    /\ Become(AfterLookup(store, target_date))
    /\ UNCHANGED <<args, target_date, last_event, events>>
    /\ UNCHANGED <<windowVars, store, rankVars, syncVars, chunkVars>>

\* bot.wait_for raises asyncio.TimeoutError: the command says so and ends.
Timeout ==
    /\ conv \in {"awaiting_selection", "awaiting_duration"}
    /\ events < MaxEvents
    /\ events' = events + 1
    /\ last_event' = Event("timeout", Text(""))
    /\ conv' = "done"
    /\ outbox' = Append(outbox, Msg(IF conv = "awaiting_selection"
                                    THEN "selection_timeout" ELSE "input_timeout", 0))
    /\ UNCHANGED <<args, target_date, day_activities, selected, failure>>
    /\ UNCHANGED <<windowVars, store, rankVars, syncVars, chunkVars>>

\* A message check(m) refuses (another author or another channel): wait_for
\* goes on waiting.
OtherMessage ==
    /\ conv \in {"awaiting_selection", "awaiting_duration"}
    /\ events < MaxEvents
    /\ events' = events + 1
    /\ last_event' = Event("other", Text(""))
    /\ UNCHANGED <<args, target_date, conv, day_activities, selected, outbox, failure>>
    /\ UNCHANGED <<windowVars, store, rankVars, syncVars, chunkVars>>

\* A message of the same author in the same channel.
Message(c) ==
    /\ conv \in {"awaiting_selection", "awaiting_duration"}
    /\ events < MaxEvents
    /\ events' = events + 1
    /\ last_event' = Event("message", c)
    /\ IF conv = "awaiting_selection"
       THEN Become(OnSelectionReply(c, day_activities, outbox))
       ELSE Become(OnDurationReply(c, day_activities, selected, outbox))
    /\ UNCHANGED <<args, target_date>>
    /\ UNCHANGED <<windowVars, store, rankVars, syncVars, chunkVars>>

ConvNext ==
    \/ Collect
    \/ Timeout
    \/ OtherMessage
    \/ \E c \in Contents : Message(c)

SpecConv == ConvInit /\ [][ConvNext]_vars

\* ------------------------------------------------ claims on the window

\* The sum of a sequence of numbers.
RECURSIVE SumSeq(_)
SumSeq(s) == IF s = <<>> THEN 0 ELSE Head(s) + SumSeq(Tail(s))

\* The sum of the window of w consecutive samples of s that starts at i.
WindowSum(s, i, w) == SumSeq(SubSeq(s, i, i + w - 1))

\* C1: for a cleaned sample sequence s and 1 <= w <= len(s),
\* get_max_average_power(s, w) is a number equal to the maximum over the
\* len(s)-w+1 windows of w consecutive samples of sum(window)/w: it is the mean
\* of some window and no window has a greater mean.
C1_MaxAverageIsBruteForceMax ==
    (called = "get_max_average_power"
        /\ interval_seconds >= 1 /\ interval_seconds <= Len(cleaned)) =>
    LET w == interval_seconds
        starts == 1..(Len(cleaned) - w + 1)
    IN  /\ max_avg.kind = "value"
        /\ max_avg.den > 0
        /\ \E i \in starts : max_avg.num * w = WindowSum(cleaned, i, w) * max_avg.den
        /\ \A i \in starts : max_avg.num * w >= WindowSum(cleaned, i, w) * max_avg.den

\* C1 witness: max_average([1,0,2], 2) = 2/2, the mean of the second window.
C1_Witness ==
    /\ called = "get_max_average_power"
    /\ cleaned = <<1, 0, 2>>
    /\ interval_seconds = 2
    /\ max_avg = Value(2, 2)

\* C2: for a window length w >= 1 greater than the number of samples,
\* get_max_average_power and get_activity_max_power return None: not zero (or
\* any other number) and not an error.
C2_TooShortIsNone ==
    /\ (called = "get_max_average_power"
            /\ interval_seconds >= 1 /\ interval_seconds > Len(cleaned))
        => max_avg.kind = "None"
    /\ (called = "get_activity_max_power"
            /\ interval_seconds >= 1 /\ interval_seconds > Len(power_list))
        => act_max.kind = "None"

\* C2 witness: a window of 3 asked of a 2-sample activity.
C2_Witness ==
    /\ called = "get_activity_max_power"
    /\ power_list = <<Some(2), None>>
    /\ interval_seconds = 3
    /\ act_max.kind = "None"


\* ------------------------------------------------ claims on the ranking

\* A record with every field of the persisted format.
WellFormed(f) ==
    f.json /\ f.name # None /\ f.start_date # None /\ f.power # None /\ f.time # None

WellFormedIds(files) == {id \in DOMAIN files : WellFormed(files[id])}

\* The well-formed records of a store: the store without its corrupt files.
WithoutCorrupt(files) == [id \in WellFormedIds(files) |-> files[id]]

\* The unrounded max average of the stored record id for window w.
Unrounded(files, id, w) ==
    get_max_average_power(clean_power_data(files[id].power[1]), w)

\* The records whose max average for w is not absent.
Qualifying(files, w) ==
    {id \in WellFormedIds(files) : Unrounded(files, id, w).kind = "value"}

MinOf(a, b) == IF a < b THEN a ELSE b

\* C3 (as claimed): on a store of well-formed records and for w >= 1,
\* analyze_power returns exactly min(n, q) results, q the number of records whose
\* cleaned power sequence has at least w samples.
C3_ReturnsMinOfNAndQualifying ==
    (rank_done /\ seconds >= 1 /\ WellFormedIds(store) = DOMAIN store) =>
        /\ ~rank_out.raised
        /\ Len(rank_out.results) = MinOf(top_n, Cardinality(Qualifying(store, seconds)))

\* C4 (as claimed): the results of analyze_power are in descending order of the
\* unrounded max average: an earlier result never has a smaller unrounded value
\* than a later one.
C4_OrderedByUnrounded ==
    (rank_done /\ seconds >= 1 /\ ~rank_out.raised) =>
        \A i, j \in DOMAIN rank_out.results :
            i < j =>
                Unrounded(store, rank_out.results[i].name, seconds).num
                    >= Unrounded(store, rank_out.results[j].name, seconds).num

\* C8 (as claimed): with corrupt files in the store, analyze_power completes
\* without raising and returns what it returns on the store without them.
C8_CorruptRecordsAreSkipped ==
    (rank_done /\ seconds >= 1) =>
        /\ ~rank_out.raised
        /\ rank_out.results = analyze_power(WithoutCorrupt(store), seconds, top_n).results

\* ------------------------------------------------------ claims on the sync

\* The records of a store: the files json.load reads.
RecordIds(files) == {id \in DOMAIN files : files[id].json}

\* The start instants, on the UTC clock, of the records that state one; a
\* start_date without timezone is read as UTC.
StartInstants(files) ==
    {LET d == files[id].start_date[1]
     IN  IF d.off = None THEN d.t ELSE d.t - d.off[1] :
        id \in {i \in RecordIds(files) :
                    files[i].start_date # None /\ files[i].start_date[1].form = "iso"}}

MaxOfSet(S) == CHOOSE x \in S : \A y \in S : x >= y

\* A run of download_and_save_power_streams has returned or raised.
RunOver == pc = "idle" /\ ended \in {"completed", "ratelimited", "error", "scanfail"}

\* C5 (as claimed): when download_and_save_power_streams has run twice and no
\* activity appeared remotely between the two runs, the second run wrote no
\* record and the store holds the ids it held after the first run.
C5_SecondRunWritesNothing ==
    (RunOver /\ runs >= 2 /\ ~new_before) =>
        (written = {} /\ DOMAIN store = ids_before)

\* C5 (amended): when download_and_save_power_streams has run twice, the first
\* run completed normally (no rate limit, no remote error, no uncaught
\* exception) and no activity appeared remotely between the two runs, the second
\* run wrote no record and the store holds the ids it held after the first run.
C5_SecondRunAfterCompletedWritesNothing ==
    (RunOver /\ runs >= 2 /\ ~new_before /\ prev_ended = "completed") =>
        (written = {} /\ DOMAIN store = ids_before)

\* C5 witness: a second run over, after a completed first run that saved an
\* activity, with nothing new at the remote service.
C5_Witness ==
    /\ RunOver /\ runs = 2 /\ ~new_before
    /\ prev_ended = "completed" /\ ended = "completed"
    /\ \E id \in ActIds :
          /\ remote[id] = "full"
          /\ id \in ids_before
          /\ store[id] = SavedFile(id, Streams(id, "full"))
    /\ written = {}

\* C6: in every step of every sequence of sync passes, a stream request is made
\* only for an identifier that has no record in the store, a write only for an
\* identifier that has no record in the store, and every record of the store is
\* still there, with the same content, after the step.
C6_RecordsNeverRefetchedOrRewritten ==
    [][/\ requests' > requests => Head(activities) \notin RecordIds(store)
       /\ \A id \in written' \ written : id \notin RecordIds(store)
       /\ \A id \in RecordIds(store) : id \in DOMAIN store' /\ store'[id] = store[id]
      ]_vars

\* C6 witness: the listing held activity 1, which has a record in the store, and
\* the loop has passed it without a request or a write.
C6_Witness ==
    /\ pc = "loop" /\ activities = <<>>
    /\ remote[1] = "full"
    /\ latest_date = MinDate
    /\ 1 \in RecordIds(store) /\ 1 \in downloaded_ids
    /\ requests = 0 /\ written = {}

\* C7: the watermark handed to the remote listing is the latest start instant
\* of the records in the store (a start_date without timezone read as UTC), and
\* datetime.min when no record states a start_date.
C7_WatermarkIsMaxStartDate ==
    pc = "listing" =>
        latest_date.t - latest_date.off =
            IF StartInstants(store) = {} THEN MinTime
            ELSE MaxOfSet(StartInstants(store))

\* C7 witness: a store with a record of 03:00+02:00 and the later record of
\* activity 2; the watermark is the start of activity 2.
C7_Witness ==
    /\ pc = "listing"
    /\ StartInstants(store) = {1, 2}
    /\ 0 \in DOMAIN store /\ store[0].start_date = Some(Date(3, Some(2)))
    /\ latest_date = StartOf(2)

\* C9: a pass ends at the step in which the rate limit is signalled; that step
\* leaves the store as it is, so every record written before it stays, and
\* afterwards the pass makes no stream request and no write.
C9_RateLimitEndsPassKeepingWrites ==
    /\ [](ended = "ratelimited" => pc = "idle")
    /\ [][(ended = "running" /\ ended' = "ratelimited") =>
            (store' = store /\ requests' = requests /\ written' = written)]_vars
    /\ [][(ended = "ratelimited" /\ ended' = "ratelimited") =>
            (store' = store /\ requests' = requests /\ written' = written)]_vars

\* C9 witness: a pass ended by the rate limit after it saved an activity and
\* before it reached another complete one; the saved record is in the store.
C9_Witness ==
    /\ pc = "idle" /\ ended = "ratelimited"
    /\ \E id \in written : store[id] = SavedFile(id, Streams(id, "full"))
    /\ \E id \in ActIds : remote[id] = "full" /\ id \notin DOMAIN store

\* C10 (as claimed): the reply a rate-limited pass gets is neither the reply of
\* a completed pass ("updated") nor the reply of a hard failure ("error").
C10_RateLimitedReportedDistinctly ==
    (pc = "idle" /\ ended = "ratelimited") =>
        (reply # "updated" /\ reply # "error")

\* C11: a stream request for an activity that lacks a power or a time stream, or
\* has one of them empty, changes nothing in the store and leaves the pass in
\* its loop (asking for the data of the same activity, or at the next listed
\* activity); and every record a pass has written holds a non-empty power
\* sequence and a non-empty time sequence.
C11_IncompleteActivitiesNeverWritten ==
    /\ [][(requests' > requests /\ remote[Head(activities)] # "full") =>
            /\ store' = store
            /\ written' = written
            /\ \/ pc = "loop" /\ pc' = "fetch" /\ activities' = activities
               \/ pc' = "loop" /\ activities' = Tail(activities)]_vars
    /\ [](\A id \in written :
            /\ id \in DOMAIN store
            /\ store[id].power # None /\ Len(store[id].power[1]) > 0
            /\ store[id].time # None /\ Len(store[id].time[1]) > 0)

\* C11 witness: a pass went through activity 1, whose power stream is empty,
\* with two requests and no write, and through activity 2, which it saved.
C11_Witness ==
    /\ pc = "loop" /\ activities = <<>>
    /\ latest_date = MinDate /\ downloaded_ids = {}
    /\ remote[1] = "emptywatts" /\ 1 \notin DOMAIN store
    /\ written = {2} /\ requests = 4

\* C12: a ranking query with a window length w <= 0 does not end in a failure
\* raised from inside the computation, and returns no entry with a numeric
\* maximum (the query is refused before any window is computed).
C12_NonPositiveWindowRejected ==
    (rank_done /\ seconds <= 0) =>
        (~rank_out.raised /\ rank_out.results = <<>>)

\* C13: whatever n, every result of analyze_power(folder, w, n) is of a record
\* whose power sequence has at least w samples: a record with fewer samples
\* than the window never appears.
C13_TooShortNeverRanked ==
    (rank_done /\ ~rank_out.raised) =>
        \A i \in DOMAIN rank_out.results :
            LET id == rank_out.results[i].name
            IN  /\ id \in DOMAIN store
                /\ store[id].power # None
                /\ Len(store[id].power[1]) >= seconds

\* C13 witness: a window of 11 on a store of a record of 10 samples and a
\* record of 11, both with a positive peak; only the second is returned
\* although two results were asked for.
C13_Witness ==
    /\ rank_done /\ ~rank_out.raised
    /\ seconds = MinSamples + 1 /\ top_n = 2
    /\ DOMAIN store = {1, 2}
    /\ store[1] = ShapedFile(1, [kind |-> "ok", len |-> MinSamples, peak |-> 2])
    /\ store[2] = ShapedFile(2, [kind |-> "ok", len |-> MinSamples + 1, peak |-> 1])
    /\ Len(rank_out.results) = 1
    /\ rank_out.results[1].name = 2

\* C15: clean_power_data returns a sequence of the length of its input that
\* holds 0 wherever the input sample is missing and the input's value wherever
\* it is present; the empty sequence gives the empty sequence.
C15_CleanKeepsLengthAndValues ==
    (called = "get_max_average_power") =>
        /\ Len(cleaned) = Len(power_list)
        /\ \A i \in 1..Len(power_list) :
              /\ power_list[i] = None => cleaned[i] = 0
              /\ power_list[i] # None => cleaned[i] = power_list[i][1]
        /\ power_list = <<>> => cleaned = <<>>

\* C15 witness: the stream 1, missing, 2 has been cleaned to 1, 0, 2.
C15_Witness ==
    /\ called = "get_max_average_power"
    /\ power_list = <<Some(1), None, Some(2)>>
    /\ cleaned = <<1, 0, 2>>

\* C19: over any sequence of sync passes, however each ended, a step never
\* removes an identifier from the store, and the watermark a pass computes at
\* its start is never earlier than the watermark of a pass before it.
C19_StoreGrowsWatermarkNeverDecreases ==
    /\ [][DOMAIN store \subseteq DOMAIN store']_vars
    /\ [](\A i, j \in DOMAIN watermarks :
            i < j => watermarks[i].t - watermarks[i].off
                        <= watermarks[j].t - watermarks[j].off)

\* C19 witness: a first pass, ended by the rate limit after it wrote a record,
\* and a second pass that started from a later watermark on a larger store.
C19_Witness ==
    /\ Len(watermarks) = 2
    /\ prev_ended = "ratelimited"
    /\ watermarks[1] = MinDate
    /\ watermarks[2].t - watermarks[2].off > MinTime
    /\ ids_before = {1}
    /\ written = {2}

\* C16: once a sync pass has completed without a rate limit or an error, and
\* no activity has appeared remotely since that pass started, every remote
\* activity with non-empty power and time streams is a record of the store
\* (on a store whose files are all of remote activities): no complete activity
\* is left where later passes, which ask only for what starts after the
\* watermark, would never list it.
C16_CompletedPassLeavesNoCompleteActivityBehind ==
    (pc = "idle" /\ ended = "completed" /\ ~fresh /\ DOMAIN store \subseteq ActIds) =>
        \A id \in ActIds : remote[id] = "full" => id \in RecordIds(store)

\* C20: for max_len >= 1, every chunk chunk_message returns is non-empty and
\* has at most max_len characters, and a non-empty text of at most max_len
\* characters comes back as the one chunk.
C20_ChunksNonEmptyAndBounded ==
    (chunk_pc = "return") =>
        /\ \A i \in DOMAIN chunks : Len(chunks[i]) >= 1 /\ Len(chunks[i]) <= max_len
        /\ (Len(msg_text) >= 1 /\ Len(msg_text) <= max_len) => chunks = <<msg_text>>

\* C17: the date mode given exactly one argument never ends in an unhandled
\* failure; a well-formed date is parsed and the activities of that date are
\* looked up, and a malformed one is answered with the invalid-date reply and
\* nothing else.
C17_DateParsedOrRefused ==
    (conv # "invoked" /\ Len(args) = 1) =>
        /\ failure = "none"
        /\ args[1].wf =>
              /\ day_activities = get_activities_for_date(store, args[1].day)
              /\ outbox # <<>>
              /\ outbox[1].kind \in {"no_activities", "selected", "list"}
        /\ ~args[1].wf => (conv = "done" /\ outbox = <<Msg("invalid_date", 0)>>)

\* The messages that report an analysis.
AnalysisReplies(sent) == {i \in DOMAIN sent : sent[i].kind \in {"max_average", "too_short"}}

\* C18: in the date-mode conversation the expiry of the timeout, while the
\* selection or a duration is awaited, ends the conversation with the timeout
\* notice and no analysis; once the conversation is done nothing more is sent;
\* and a reply to the list that is 'cancel' or is not a number in
\* 1..len(activities) ends it with no activity selected and none analysed.
C18_TimeoutCancelInvalidEndConversation ==
    /\ [][(events' > events /\ last_event'.kind = "timeout") =>
            /\ conv' = "done"
            /\ selected' = selected
            /\ failure' = "none"
            /\ outbox' = Append(outbox, Msg(IF conv = "awaiting_selection"
                                            THEN "selection_timeout"
                                            ELSE "input_timeout", 0))]_vars
    /\ [][conv = "done" => (conv' = "done" /\ outbox' = outbox)]_vars
    /\ [][(/\ conv = "awaiting_selection"
           /\ events' > events
           /\ last_event'.kind = "message"
           /\ \/ last_event'.content.body # "int"
              \/ last_event'.content.n < 1
              \/ last_event'.content.n > Len(day_activities)) =>
            /\ conv' = "done"
            /\ selected' = None
            /\ failure' = "none"
            /\ AnalysisReplies(outbox') = {}
            /\ outbox'[Len(outbox')].kind \in {"cancelled", "invalid_selection"}]_vars

\* C18 witness: two activities on the date, the second chosen, and then the
\* timeout of the wait for a duration: the conversation is done with the
\* timeout notice as its last message.
C18_Witness ==
    /\ conv = "done"
    /\ Len(day_activities) = 2
    /\ selected = Some(day_activities[2])
    /\ last_event.kind = "timeout"
    /\ events = 2
    /\ outbox = <<Msg("list", 2), Msg("selected", 2), Msg("input_timeout", 0)>>

====
